---- MODULE Spec2Model ----
(***************************************************************************)
(* Model of src/transformer.service.ts (class Transformer):                *)
(*   - getCropDimensions, a pure function over JavaScript numbers          *)
(*     (IEEE-754 binary64), checked under SpecCrop;                        *)
(*   - buildCacheKey, a pure function over strings, checked under SpecKey; *)
(*   - transform, the asynchronous pipeline, checked under Spec: each call *)
(*     is a process whose steps are the code between two awaits.           *)
(***************************************************************************)
EXTENDS Integers, Sequences, FiniteSets, TLC

(***************************************************************************)
(* Arbitrary-precision naturals: little-endian sequences of limbs in base  *)
(* BASE without leading zero limbs (zero is <<>>).  They carry the 53-bit  *)
(* significands of JavaScript numbers, which do not fit TLC's integers.    *)
(***************************************************************************)
BASE == 2^15

RECURSIVE IntBitLen(_)
IntBitLen(n) == IF n = 0 THEN 0 ELSE 1 + IntBitLen(n \div 2)

LimbBits == IntBitLen(BASE) - 1

Min(a, b) == IF a < b THEN a ELSE b

Max(a, b) == IF a > b THEN a ELSE b

RECURSIVE BigNorm(_)
BigNorm(x) ==
  IF x = <<>> THEN <<>>
  ELSE IF x[Len(x)] = 0 THEN BigNorm(SubSeq(x, 1, Len(x) - 1))
  ELSE x

RECURSIVE BigFromInt(_)
BigFromInt(n) ==
  IF n = 0 THEN <<>> ELSE <<n % BASE>> \o BigFromInt(n \div BASE)

\* for x that fits an integer
RECURSIVE BigToInt(_)
BigToInt(x) == IF x = <<>> THEN 0 ELSE x[1] + BASE * BigToInt(Tail(x))

RECURSIVE BigAddC(_, _, _)
BigAddC(x, y, c) ==
  IF x = <<>> /\ y = <<>> THEN (IF c = 0 THEN <<>> ELSE <<c>>)
  ELSE LET a == IF x = <<>> THEN 0 ELSE x[1]
           b == IF y = <<>> THEN 0 ELSE y[1]
           s == a + b + c
       IN  <<s % BASE>> \o BigAddC(IF x = <<>> THEN <<>> ELSE Tail(x),
                                   IF y = <<>> THEN <<>> ELSE Tail(y),
                                   s \div BASE)

BigAdd(x, y) == BigAddC(x, y, 0)

BigDouble(x) == BigAddC(x, x, 0)

\* x - y - b for x >= y + b, before normalisation
RECURSIVE BigSubB(_, _, _)
BigSubB(x, y, b) ==
  IF x = <<>> THEN <<>>
  ELSE LET s == x[1] - (IF y = <<>> THEN 0 ELSE y[1]) - b
       IN  <<IF s < 0 THEN s + BASE ELSE s>>
             \o BigSubB(Tail(x), IF y = <<>> THEN <<>> ELSE Tail(y),
                        IF s < 0 THEN 1 ELSE 0)

BigSub(x, y) == BigNorm(BigSubB(x, y, 0))

\* compares the limbs i..1 of two numbers of equal length
RECURSIVE BigCmpAt(_, _, _)
BigCmpAt(x, y, i) ==
  IF i = 0 THEN 0
  ELSE IF x[i] < y[i] THEN -1
  ELSE IF x[i] > y[i] THEN 1
  ELSE BigCmpAt(x, y, i - 1)

\* -1, 0 or 1 as x < y, x = y or x > y
BigCmp(x, y) ==
  IF Len(x) < Len(y) THEN -1
  ELSE IF Len(x) > Len(y) THEN 1
  ELSE BigCmpAt(x, y, Len(x))

\* x * k + c for k <= BASE and c < BASE, limb by limb
RECURSIVE BigMulC(_, _, _)
BigMulC(x, k, c) ==
  IF x = <<>> THEN (IF c = 0 THEN <<>> ELSE <<c>>)
  ELSE <<(x[1] * k + c) % BASE>>
       \o BigMulC(Tail(x), k, (x[1] * k + c) \div BASE)

\* x * k for an integer 0 <= k <= BASE
BigMulInt(x, k) == IF k = 0 THEN <<>> ELSE BigMulC(x, k, 0)

RECURSIVE BigZeros(_)
BigZeros(n) == IF n = 0 THEN <<>> ELSE <<0>> \o BigZeros(n - 1)

\* x * 2^n
BigShl(x, n) ==
  IF x = <<>> THEN <<>>
  ELSE BigZeros(n \div LimbBits) \o BigMulC(x, 2^(n % LimbBits), 0)

\* floor(x / 2^b) for b < LimbBits, before normalisation
RECURSIVE BigShrBits(_, _)
BigShrBits(x, b) ==
  IF x = <<>> THEN <<>>
  ELSE <<(x[1] \div 2^b)
         + (IF Len(x) > 1 THEN (x[2] % 2^b) * 2^(LimbBits - b) ELSE 0)>>
       \o BigShrBits(Tail(x), b)

\* floor(x / 2^n)
BigShr(x, n) ==
  IF n \div LimbBits >= Len(x) THEN <<>>
  ELSE BigNorm(BigShrBits(SubSeq(x, n \div LimbBits + 1, Len(x)),
                          n % LimbBits))

BigHalf(x) == BigShr(x, 1)

BigIsOdd(x) == x # <<>> /\ x[1] % 2 = 1

\* the number of bits of x: 2^(BigBitLen(x)-1) <= x < 2^BigBitLen(x)
BigBitLen(x) ==
  IF x = <<>> THEN 0 ELSE LimbBits * (Len(x) - 1) + IntBitLen(x[Len(x)])

\* The one element of a singleton.  Only({F(v) : v \in {e}}) is F(e) with e
\* computed once, before F is.
Only(S) == CHOOSE y \in S : TRUE

\* Binary long division.  BigDivBits: for r < d, the quotient and the
\* remainder of r * 2^i by d; the i quotient bits are those of the upper half
\* followed by those of the lower half, one bit from 2r against d.
BigDivBit(r1, d) ==
  IF BigCmp(r1, d) >= 0 THEN [q |-> <<1>>, r |-> BigSub(r1, d)]
  ELSE [q |-> <<>>, r |-> r1]

BigDivJoin(hi, lo, i) == [q |-> BigAdd(BigShl(hi.q, i), lo.q), r |-> lo.r]

RECURSIVE BigDivBits(_, _, _)
BigDivLow(hi, d, i) ==
  Only({BigDivJoin(hi, lo, i) : lo \in {BigDivBits(hi.r, d, i)}})

BigDivBits(r, d, i) ==
  IF i = 0 THEN [q |-> <<>>, r |-> r]
  ELSE IF i = 1 THEN BigDivBit(BigDouble(r), d)
  ELSE Only({BigDivLow(hi, d, i - i \div 2)
               : hi \in {BigDivBits(r, d, i \div 2)}})

\* the quotient and the remainder of n * 2^s by d, for 0 < n < d and s >= 0:
\* n is shifted at once by the j0 bits that keep it below d
BigDivFrom(n, d, s, j0) ==
  Only({BigDivBits(r, d, s - j0) : r \in {BigShl(n, j0)}})

BigDivShift(n, d, s) ==
  BigDivFrom(n, d, s, Min(s, Max(0, BigBitLen(d) - BigBitLen(n) - 1)))

(***************************************************************************)
(* JavaScript numbers (IEEE-754 binary64, round to nearest, ties to even), *)
(* for the positive finite values getCropDimensions computes with: a       *)
(* number is [m, e] and stands for m * 2^e, with m a natural below 2^53.   *)
(***************************************************************************)
MantBits == 53

ToNumber(n) == [m |-> BigFromInt(n), e |-> 0]

\* q * 2^e (q of MantBits bits) rounded by what was cut off: c is -1, 0 or 1
\* as the cut-off part is below, at or above half a unit of q's last place
RoundUp(q1, e) ==
  IF BigBitLen(q1) > MantBits
  THEN [m |-> BigHalf(q1), e |-> e + 1]
  ELSE [m |-> q1, e |-> e]

RoundSig(q, c, e) ==
  IF c > 0 \/ (c = 0 /\ BigIsOdd(q))
  THEN RoundUp(BigAdd(q, <<1>>), e)
  ELSE [m |-> q, e |-> e]

RoundDiv(dm, d, e) == RoundSig(dm.q, BigCmp(BigDouble(dm.r), d), e)

\* the binary64 nearest to (n / d) * 2^(e1 + s), for n < d and
\* n * 2^s / d in [2^52, 2^53)
FRoundAt(n, d, e1, s) ==
  Only({RoundDiv(dm, d, e1 - s) : dm \in {BigDivShift(n, d, s)}})

\* for n < d: d / n lies in (2^(k-1), 2^(k+1)) for k the difference of their
\* bit lengths
FRoundK(n, d, e0, k) ==
  FRoundAt(n, d, e0,
           IF BigCmp(BigShl(n, k), d) >= 0
           THEN MantBits - 1 + k ELSE MantBits + k)

FRoundBelow(n, d, e0) == FRoundK(n, d, e0, BigBitLen(d) - BigBitLen(n))

\* the binary64 nearest to (n / d) * 2^e0, for naturals n, d > 0: d is
\* scaled by 2^t to lie above n
FRoundScaled(n, d, e0, t) ==
  Only({FRoundBelow(n, d1, e0 + t) : d1 \in {BigShl(d, t)}})

FRound(n, d, e0) ==
  FRoundScaled(n, d, e0, Max(0, BigBitLen(n) - BigBitLen(d) + 1))

\* x / y on numbers
NumDiv(x, y) ==
  Only({FRound(a.m, b.m, a.e - b.e) : a \in {x}, b \in {y}})

\* the binary64 nearest to p * 2^e, p cut to MantBits bits and rounded
RoundCut(p, q, j, e) ==
  RoundSig(q, BigCmp(BigDouble(BigSub(p, BigShl(q, j))), BigShl(<<1>>, j)),
           e + j)

RoundShift(p, j, e) == RoundCut(p, BigShr(p, j), j, e)

RoundBig(p, e) == RoundShift(p, Max(BigBitLen(p) - MantBits, 0), e)

\* x * y on numbers, for x an integer up to BASE: the exact product, rounded
NumMul(x, y) ==
  Only({RoundBig(BigMulInt(b.m, BigToInt(a.m)), a.e + b.e)
          : a \in {x}, b \in {y}})

\* floor(m * 2^e)
BigFloor(m, e) == IF e >= 0 THEN BigShl(m, e) ELSE BigShr(m, -e)

\* MathRound as Math.floor would have it
MathFloor(x) == Only({BigToInt(BigFloor(a.m, a.e)) : a \in {x}})

\* Math.round: the nearest integer, ties towards +Infinity: floor(x + 1/2)
MathRound(x) ==
  Only({BigToInt(IF a.e >= 0 THEN BigFloor(a.m, a.e)
                 ELSE BigFloor(BigAdd(a.m, BigShl(<<1>>, (-a.e) - 1)), a.e))
          : a \in {x}})

(***************************************************************************)
(* getCropDimensions (lines 26-40).  An optional argument is <<>> when it  *)
(* is omitted (undefined) and <<n>> when it is given.                      *)
(***************************************************************************)
undefined == <<>>

\* the operands for which JavaScript's `x || y` yields y: undefined and 0
Falsy(v) == v = undefined \/ v = <<0>>

\* getCropDimensions with an omitted height taken to be maxSize
getCropDimensionsHeightMax(maxSize, width, height) ==
  LET h == IF Falsy(height) THEN maxSize ELSE height[1]
  IN  IF width <= maxSize /\ h <= maxSize
      THEN <<width, h>>
      ELSE LET aspectRatio == NumDiv(ToNumber(width), ToNumber(h))
           IN  IF width > h
               THEN <<maxSize,
                      MathRound(NumDiv(ToNumber(maxSize), aspectRatio))>>
               ELSE <<MathRound(NumMul(ToNumber(maxSize), aspectRatio)),
                      MathRound(ToNumber(maxSize))>>

\* getCropDimensions clamping the short edge instead of the long one
getCropDimensionsShortEdge(maxSize, width, height) ==
  LET h == IF Falsy(height) THEN width ELSE height[1]
  IN  IF width <= maxSize /\ h <= maxSize
      THEN <<width, h>>
      ELSE LET aspectRatio == NumDiv(ToNumber(width), ToNumber(h))
           IN  IF width < h
               THEN <<maxSize,
                      MathRound(NumDiv(ToNumber(maxSize), aspectRatio))>>
               ELSE <<MathRound(NumMul(ToNumber(maxSize), aspectRatio)),
                      MathRound(ToNumber(maxSize))>>

getCropDimensions(maxSize, width, height) ==
  LET h == IF Falsy(height) THEN width ELSE height[1]
  IN  IF width <= maxSize /\ h <= maxSize
      THEN <<width, h>>
      ELSE LET aspectRatio == NumDiv(ToNumber(width), ToNumber(h))
           IN  IF width > h
               THEN <<maxSize,
                      MathRound(NumDiv(ToNumber(maxSize), aspectRatio))>>
               ELSE <<MathRound(NumMul(ToNumber(maxSize), aspectRatio)),
                      MathRound(ToNumber(maxSize))>>

(***************************************************************************)
(* Values.  An optional value is <<>> (undefined, null, absent) or <<v>>.  *)
(* A string is a sequence of characters.                                   *)
(***************************************************************************)
Some(v) == <<v>>

null == <<>>

\* `if (x)` / `!x` on an optional object, buffer or non-empty string
Truthy(v) == v # undefined

DEFAULT_CROP_MAX_SIZE == 2000

cropMaxSize == DEFAULT_CROP_MAX_SIZE

(***************************************************************************)
(* buildCacheKey (lines 42-45).  ObjectHash.hash is not part of the source *)
(* at hand: following the specification it is a deterministic digest that  *)
(* differs for records differing in any field, here the one-symbol string  *)
(* standing for the digest of its argument.                                *)
(***************************************************************************)
hash(options) == <<[digest |-> options]>>

\* KeyString without its separators
KeyStringUnseparated(id, adapterName, h) ==
  <<"t", "r", "a", "n", "s", "f", "o", "r", "m">> \o id \o adapterName \o h

\* the template literal `transform:${id}:${adapterName}:${hash}`
KeyString(id, adapterName, h) ==
  <<"t", "r", "a", "n", "s", "f", "o", "r", "m", ":">>
    \o id \o <<":">> \o adapterName \o <<":">> \o h

buildCacheKey(id, options, adapterName) ==
  KeyString(id, adapterName, hash(options))

(***************************************************************************)
(* The collaborators of transform.                                         *)
(***************************************************************************)
\* the bytes CachedImage.fetch resolves to for an image that exists
SourceBytes(id) == [bytes |-> "source", id |-> id]

\* the format sharp's metadata() reports for the source
NativeFormat(id) == IF id = <<"a">> THEN "jpeg" ELSE "png"

\* smartcrop.crop(image, {width, height}).topCrop
TopCrop(image, width, height) ==
  [x |-> <<"x", image.id, width, height>>,
   y |-> <<"y", image.id, width, height>>,
   width |-> <<"w", image.id, width, height>>,
   height |-> <<"h", image.id, width, height>>]

\* the buffer a sharp pipeline yields: its input and the operations on it
ToBuffer(input, operations) == [bytes |-> "sharp", input |-> input, ops |-> operations]

(***************************************************************************)
(* The state: the Result Cache (Keyv) and the calls of transform.  Every   *)
(* call is a process; its record holds the locals of transform (named as   *)
(* in the source), where it stands (pc: the await it is suspended at) and, *)
(* for the properties, what it was passed and what it has invoked (log).   *)
(***************************************************************************)
NumCalls == 2

Calls == 1..NumCalls

VARIABLES cache, calls, base, crop, keys

vars == <<cache, calls, base, crop, keys>>

Formats == {"jpeg"}

\* the option records a behaviour draws from: its calls differ in the format
BaseOptions ==
  [width : {Some(4000)}, height : {Some(2000)},
   format : {undefined}, quality : {Some(80)}, progressive : {Some(TRUE)},
   blur : BOOLEAN, blurSigma : {Some(3)}, crop : BOOLEAN,
   smartcrop : BOOLEAN, gravity : {Some("center")}, overlay : BOOLEAN,
   overlayImage : {Some(<<"o">>)}]

\* the options with no stage switched on
PlainOptions ==
  CHOOSE o \in BaseOptions : ~o.blur /\ ~o.crop /\ ~o.smartcrop /\ ~o.overlay

IdleCall ==
  [pc |-> "idle", id |-> <<>>, adapterName |-> <<>>, passed |-> undefined,
   options |-> undefined, before |-> {}, cacheKey |-> <<>>,
   cachedImage |-> undefined, originalImage |-> undefined,
   fetched |-> FALSE, transformer |-> <<>>, cropDims |-> <<>>,
   overlayFetched |-> FALSE, overlayImage |-> undefined,
   result |-> undefined, outcome |-> "none", failedAt |-> "", log |-> <<>>]

NoCrop == [maxSize |-> 0, width |-> 0, height |-> undefined, out |-> <<>>]

NoKeys == [a |-> <<>>, b |-> <<>>, built |-> FALSE, ka |-> <<>>, kb |-> <<>>]

Init ==
  /\ cache = <<>>
  /\ calls = [p \in Calls |-> IdleCall]
  /\ base \in BaseOptions
  /\ crop = NoCrop
  /\ keys = NoKeys

Ids == {<<"a">>}

AdapterNames == {<<"A">>}

\* the options a call of this behaviour may be passed
Variants(o) ==
  {[o EXCEPT !.format = f] : f \in {undefined} \cup {Some(x) : x \in Formats}}

(***************************************************************************)
(* transform (lines 47-141), cut at its awaits.  The operators below are   *)
(* the stretches of code between two awaits: each takes the call's record  *)
(* and yields it as it is when the call is suspended again, has returned   *)
(* (pc "done") or has thrown (pc "failed").                                *)
(***************************************************************************)
\* the call invokes a collaborator or an image-engine method
Invoke(c, what) == [c EXCEPT !.log = Append(@, what)]

\* an image-engine method called on the sharp instance
Pipe(c, operation) ==
  [c EXCEPT !.transformer = Append(@, operation),
            !.log = Append(@, operation.op)]

Await(c, at) == [c EXCEPT !.pc = at]

Return(c, res, how) ==
  [c EXCEPT !.pc = "done", !.result = Some(res), !.outcome = how]

\* nothing in transform catches: a rejected await rejects the call
Throw(c, at) == [c EXCEPT !.pc = "failed", !.failedAt = at]

\* lines 52-58
Enter(id, options, adapterName, finished) ==
  Await(Invoke([IdleCall EXCEPT !.id = id, !.adapterName = adapterName,
                                !.passed = options, !.options = options,
                                !.before = finished,
                                !.cacheKey =
                                  buildCacheKey(id, options, adapterName)],
               "cache.get"),
        "cache.get")

\* Encode storing a result before the image is encoded
EncodeAfterSet(c) ==
  Await(Invoke([c EXCEPT !.result = Some([format |-> c.options.format,
                                          image |-> null])],
               "cache.set"),
        "cache.set")

\* lines 127-132
Encode(c) ==
  Await(Pipe(c, [op |-> "toFormat", format |-> c.options.format,
                 progressive |-> c.options.progressive,
                 quality |-> c.options.quality]),
        "toBuffer")

\* lines 116-118
Overlay(c) ==
  IF c.options.overlay
  THEN Await(Invoke(c, "overlay.fetch"), "overlay.fetch")
  ELSE Encode(c)

\* this.getCropDimensions(this.cropMaxSize, options.width, options.height)
\* of lines 89-93 and 100-104, read from the table of its values over the
\* sizes the calls are passed (TLC computes the table once)
CropTable ==
  {<<o.width, o.height,
     getCropDimensions(cropMaxSize, o.width[1], o.height)>> : o \in BaseOptions}

CropDimensions(options) ==
  (CHOOSE t \in CropTable : t[1] = options.width /\ t[2] = options.height)[3]

\* Geometry with the two tests in the other order
GeometryCropFirst(c) ==
  IF c.options.crop
  THEN LET d == CropDimensions(c.options)
       IN  Overlay(Pipe([c EXCEPT !.cropDims = d],
                        [op |-> "resize", width |-> Some(d[1]),
                         height |-> Some(d[2]),
                         options |-> [position |-> c.options.gravity]]))
  ELSE IF c.options.smartcrop
  THEN Await(Invoke([c EXCEPT !.cropDims = CropDimensions(c.options)],
                    "smartcrop"),
             "smartcrop")
  ELSE Overlay(Pipe(c, [op |-> "resize", width |-> c.options.width,
                        height |-> c.options.height,
                        options |-> [fit |-> "inside",
                                     withoutEnlargement |-> TRUE]]))

\* lines 88-113
Geometry(c) ==
  IF c.options.smartcrop
  THEN Await(Invoke([c EXCEPT !.cropDims = CropDimensions(c.options)],
                    "smartcrop"),
             "smartcrop")
  ELSE IF c.options.crop
  THEN LET d == CropDimensions(c.options)
       IN  Overlay(Pipe([c EXCEPT !.cropDims = d],
                        [op |-> "resize", width |-> Some(d[1]),
                         height |-> Some(d[2]),
                         options |-> [position |-> c.options.gravity]]))
  ELSE Overlay(Pipe(c, [op |-> "resize", width |-> c.options.width,
                        height |-> c.options.height,
                        options |-> [fit |-> "inside",
                                     withoutEnlargement |-> TRUE]]))

\* AfterCacheGet going on to the source on a hit
AfterCacheGetRefetch(c, cachedImage) ==
  Await(Invoke([c EXCEPT !.cachedImage = cachedImage], "fetch"), "fetch")

\* lines 59-66
AfterCacheGet(c, cachedImage) ==
  IF Truthy(cachedImage)
  THEN Return([c EXCEPT !.cachedImage = cachedImage], cachedImage[1], "cached")
  ELSE Await(Invoke(c, "fetch"), "fetch")

\* lines 77-86
Prepare(c) ==
  LET rotated == Pipe(Invoke(c, "sharp"), [op |-> "rotate"])
      blurred == IF rotated.options.blur
                 THEN Pipe(rotated, [op |-> "blur",
                                     sigma |-> rotated.options.blurSigma])
                 ELSE rotated
  IN  IF ~Truthy(blurred.options.format)
      THEN Await(Invoke(blurred, "metadata"), "metadata")
      ELSE Geometry(blurred)

\* AfterFetch storing the null-image result
AfterFetchCachesNull(c, originalImage) ==
  IF ~Truthy(originalImage)
  THEN Await(Invoke([c EXCEPT !.fetched = TRUE,
                              !.result = Some([format |-> c.options.format,
                                               image |-> null])],
                    "cache.set"),
             "cache.set")
  ELSE Prepare([c EXCEPT !.fetched = TRUE, !.originalImage = originalImage])

\* AfterFetch fetching once more when the source yields no bytes
AfterFetchRetry(c, originalImage) ==
  IF ~Truthy(originalImage)
  THEN IF Len(c.log) < 3
       THEN Await(Invoke(c, "fetch"), "fetch")
       ELSE Return([c EXCEPT !.fetched = TRUE],
                   [format |-> c.options.format, image |-> null], "null")
  ELSE Prepare([c EXCEPT !.fetched = TRUE, !.originalImage = originalImage])

\* lines 68-86
AfterFetch(c, originalImage) ==
  IF ~Truthy(originalImage)
  THEN Return([c EXCEPT !.fetched = TRUE],
              [format |-> c.options.format, image |-> null], "null")
  ELSE Prepare([c EXCEPT !.fetched = TRUE, !.originalImage = originalImage])

\* AfterMetadata leaving the options' format as it was
AfterMetadataUnresolved(c, format) == Geometry(c)

\* lines 84-86, after the await
AfterMetadata(c, format) ==
  Geometry([c EXCEPT !.options.format = Some(format)])

\* lines 95-98
AfterSmartcrop(c, topCrop) ==
  Overlay(Pipe(Pipe(c, [op |-> "extract", width |-> topCrop.width,
                        height |-> topCrop.height, left |-> topCrop.x,
                        top |-> topCrop.y]),
               [op |-> "resize", width |-> Some(c.cropDims[1]),
                height |-> Some(c.cropDims[1]), options |-> <<>>]))

\* line 120, up to its await
AfterOverlayFetch(c, overlayImage) ==
  Await(Invoke([c EXCEPT !.overlayFetched = TRUE,
                         !.overlayImage = overlayImage],
               "overlay.sharp"),
        "overlay.toBuffer")

\* the buffer of line 120: the overlay on its 200x200 canvas, flattened
OverlayBuffer(overlayImage) ==
  ToBuffer(overlayImage,
           <<[op |-> "resize", width |-> Some(200), height |-> Some(200),
              options |-> [fit |-> "contain", background |-> "transparent"]],
             [op |-> "flatten", background |-> "#ff6600"]>>)

\* AfterOverlayBuffer compositing onto the pipeline after toFormat
AfterOverlayBufferLate(c, overlayImage) ==
  Pipe(Encode([c EXCEPT !.overlayImage = overlayImage]),
       [op |-> "composite", input |-> overlayImage, top |-> 35, left |-> 35])

\* lines 120-132: the `if` of line 122 guards the log call alone
AfterOverlayBuffer(c, overlayImage) ==
  Encode(Pipe([c EXCEPT !.overlayImage = overlayImage],
              [op |-> "composite", input |-> overlayImage, top |-> 35,
               left |-> 35]))

\* AfterToBuffer stamping the result with the time: the number of calls over
AfterToBufferStamped(c, image) ==
  Await(Invoke([c EXCEPT !.result =
                  Some([format |-> c.options.format,
                        image |-> Some([buffer |-> image,
                                        at |-> Cardinality(
                                          {q \in Calls : calls[q].pc \in
                                             {"done", "failed"}})])])],
               "cache.set"),
        "cache.set")

\* AfterToBuffer storing under the key of the options as they are by then
AfterToBufferRekeyed(c, image) ==
  Await(Invoke([c EXCEPT !.result = Some([format |-> c.options.format,
                                          image |-> Some(image)]),
                         !.cacheKey = buildCacheKey(c.id, c.options,
                                                    c.adapterName)],
               "cache.set"),
        "cache.set")

\* lines 127-139, up to the await of cache.set
AfterToBuffer(c, image) ==
  Await(Invoke([c EXCEPT !.result = Some([format |-> c.options.format,
                                          image |-> Some(image)])],
               "cache.set"),
        "cache.set")

\* line 140
AfterCacheSet(c) == Return(c, c.result[1], "computed")

(***************************************************************************)
(* The Result Cache: Keyv's get and set on a store that keeps what it is   *)
(* given (no TTL is passed to set).                                        *)
(***************************************************************************)
CacheGet(key) == IF key \in DOMAIN cache THEN Some(cache[key]) ELSE undefined

\* CacheSet on a store that keeps the last entry alone
CacheSetAlone(key, value) == [k \in {key} |-> value]

CacheSet(key, value) ==
  [k \in DOMAIN cache \cup {key} |-> IF k = key THEN value ELSE cache[k]]

(***************************************************************************)
(* The actions: a call starts, or the await a call is suspended at         *)
(* settles, with a value or with a rejection.                              *)
(***************************************************************************)
Finished == {q \in Calls : calls[q].pc \in {"done", "failed"}}

Resume(p, c) ==
  /\ calls' = [calls EXCEPT ![p] = c]
  /\ UNCHANGED <<base, crop, keys>>

Transform(p) ==
  /\ calls[p].pc = "idle"
  /\ \A q \in Calls : q < p => calls[q].pc # "idle"
  /\ \E id \in Ids, options \in Variants(base), adapterName \in AdapterNames :
       Resume(p, Enter(id, options, adapterName, Finished))
  /\ UNCHANGED cache

CacheGetSettles(p) ==
  /\ calls[p].pc = "cache.get"
  /\ \/ Resume(p, AfterCacheGet(calls[p], CacheGet(calls[p].cacheKey)))
     \/ Resume(p, Throw(calls[p], "cache.get"))
  /\ UNCHANGED cache

FetchSettles(p) ==
  /\ calls[p].pc = "fetch"
  /\ \/ Resume(p, AfterFetch(calls[p], Some(SourceBytes(calls[p].id))))
     \/ Resume(p, AfterFetch(calls[p], null))
     \/ Resume(p, Throw(calls[p], "fetch"))
  /\ UNCHANGED cache

MetadataSettles(p) ==
  /\ calls[p].pc = "metadata"
  /\ \/ Resume(p, AfterMetadata(calls[p], NativeFormat(calls[p].id)))
     \/ Resume(p, Throw(calls[p], "metadata"))
  /\ UNCHANGED cache

SmartcropSettles(p) ==
  /\ calls[p].pc = "smartcrop"
  /\ \/ Resume(p, AfterSmartcrop(calls[p],
                                 TopCrop(calls[p].originalImage[1],
                                         calls[p].cropDims[1],
                                         calls[p].cropDims[2])))
     \/ Resume(p, Throw(calls[p], "smartcrop"))
  /\ UNCHANGED cache

OverlayFetchSettles(p) ==
  /\ calls[p].pc = "overlay.fetch"
  /\ \/ Resume(p, AfterOverlayFetch(calls[p],
                    Some(SourceBytes(calls[p].options.overlayImage[1]))))
     \/ Resume(p, AfterOverlayFetch(calls[p], null))
     \/ Resume(p, Throw(calls[p], "overlay.fetch"))
  /\ UNCHANGED cache

\* sharp(null) has no input to read: its toBuffer() yields no buffer; it
\* rejects, or it never settles (then this step is not taken)
OverlayBufferSettles(p) ==
  /\ calls[p].pc = "overlay.toBuffer"
  /\ \/ /\ Truthy(calls[p].overlayImage)
        /\ Resume(p, AfterOverlayBuffer(calls[p],
                       Some(OverlayBuffer(calls[p].overlayImage[1]))))
     \/ Resume(p, Throw(calls[p], "overlay.toBuffer"))
  /\ UNCHANGED cache

ToBufferSettles(p) ==
  /\ calls[p].pc = "toBuffer"
  /\ \/ Resume(p, AfterToBuffer(calls[p],
                                ToBuffer(calls[p].originalImage[1],
                                         calls[p].transformer)))
     \/ Resume(p, Throw(calls[p], "toBuffer"))
  /\ UNCHANGED cache

CacheSetSettles(p) ==
  /\ calls[p].pc = "cache.set"
  /\ \/ /\ cache' = CacheSet(calls[p].cacheKey, calls[p].result[1])
        /\ Resume(p, AfterCacheSet(calls[p]))
     \/ /\ cache' \in {cache, CacheSet(calls[p].cacheKey, calls[p].result[1])}
        /\ Resume(p, Throw(calls[p], "cache.set"))

Next ==
  \E p \in Calls :
    \/ Transform(p)
    \/ CacheGetSettles(p)
    \/ FetchSettles(p)
    \/ MetadataSettles(p)
    \/ SmartcropSettles(p)
    \/ OverlayFetchSettles(p)
    \/ OverlayBufferSettles(p)
    \/ ToBufferSettles(p)
    \/ CacheSetSettles(p)

Spec == Init /\ [][Next]_vars

\* the await call p is suspended at settles
Settles(p) ==
  \/ CacheGetSettles(p)
  \/ FetchSettles(p)
  \/ MetadataSettles(p)
  \/ SmartcropSettles(p)
  \/ OverlayFetchSettles(p)
  \/ OverlayBufferSettles(p)
  \/ ToBufferSettles(p)
  \/ CacheSetSettles(p)

\* transform where every collaborator call returns: no await is left pending
SpecLive == Spec /\ \A p \in Calls : WF_vars(Settles(p))

(***************************************************************************)
(* getCropDimensions on its own: a call with arguments from bounded sets.  *)
(***************************************************************************)
MaxSmallSize == 12

MaxSmallDim == 24

\* the sizes of the specification's examples, and two for which the exact
\* quotient lies halfway between two integers
ExampleDims == {500, 1000, 1027, 2000, 2080, 4000}

MaxSizes == (1..MaxSmallSize) \cup {1000, DEFAULT_CROP_MAX_SIZE}

Dims == (1..MaxSmallDim) \cup ExampleDims

InitCrop ==
  /\ cache = <<>>
  /\ calls = [p \in Calls |-> IdleCall]
  /\ base = PlainOptions
  /\ keys = NoKeys
  /\ \E maxSize \in MaxSizes, width \in Dims,
        height \in {undefined} \cup {Some(h) : h \in Dims} :
       crop = [maxSize |-> maxSize, width |-> width, height |-> height,
               out |-> <<>>]

CallGetCropDimensions ==
  /\ crop.out = <<>>
  /\ crop' = [crop EXCEPT !.out =
                 getCropDimensions(crop.maxSize, crop.width, crop.height)]
  /\ UNCHANGED <<cache, calls, base, keys>>

NextCrop == CallGetCropDimensions

SpecCrop == InitCrop /\ [][NextCrop]_vars

(***************************************************************************)
(* buildCacheKey on its own: the keys of two triples (id, adapter name,    *)
(* fingerprint) of bounded strings; an id may hold ':'.                    *)
(***************************************************************************)
MaxStrLen == 2

RECURSIVE Strings(_, _)
Strings(alphabet, n) ==
  IF n = 0 THEN {<<>>}
  ELSE LET shorter == Strings(alphabet, n - 1)
       IN  shorter \cup {Append(s, ch) : s \in shorter, ch \in alphabet}

KeyIds == Strings({"a", ":"}, MaxStrLen)

KeyNames == Strings({"a"}, MaxStrLen)

KeyTriples == KeyIds \X KeyNames \X KeyNames

InitKeys ==
  /\ cache = <<>>
  /\ calls = [p \in Calls |-> IdleCall]
  /\ base = PlainOptions
  /\ crop = NoCrop
  /\ \E a \in KeyTriples, b \in KeyTriples :
       keys = [NoKeys EXCEPT !.a = a, !.b = b]

CallBuildCacheKey ==
  /\ ~keys.built
  /\ keys' = [keys EXCEPT !.built = TRUE,
                          !.ka = KeyString(keys.a[1], keys.a[2], keys.a[3]),
                          !.kb = KeyString(keys.b[1], keys.b[2], keys.b[3])]
  /\ UNCHANGED <<cache, calls, base, crop>>

NextKeys == CallBuildCacheKey

SpecKeys == InitKeys /\ [][NextKeys]_vars

(***************************************************************************)
(* The properties.                                                         *)
(***************************************************************************)
Count(log, what) == Cardinality({i \in DOMAIN log : log[i] = what})

Started(p) == calls[p].pc # "idle"

Returned(p) == calls[p].pc = "done"

\* q was called with what p was called with
SameArguments(p, q) ==
  /\ calls[p].id = calls[q].id
  /\ calls[p].adapterName = calls[q].adapterName
  /\ calls[p].passed = calls[q].passed

\* q was called after p had finished
InSequence(p, q) == Started(q) /\ p \in calls[q].before

\* C1: when cache.get returns a stored result, the call has returned exactly
\* that result, which is the entry under its key, and has invoked nothing
\* but cache.get: no fetch, no engine or smartcrop operation, no cache.set.
C1_HitReturnsStored ==
  \A p \in Calls :
    Truthy(calls[p].cachedImage) =>
      /\ Returned(p)
      /\ calls[p].result = calls[p].cachedImage
      /\ calls[p].cacheKey \in DOMAIN cache
      /\ cache[calls[p].cacheKey] = calls[p].result[1]
      /\ calls[p].log = <<"cache.get">>
      /\ calls[p].transformer = <<>>

C1_Witness ==
  \E p \in Calls : Truthy(calls[p].cachedImage) /\ Returned(p)

C3_FetchMissReturnsNullImage ==
  \A p \in Calls :
    (calls[p].fetched /\ ~Truthy(calls[p].originalImage)) =>
      /\ Returned(p)
      /\ calls[p].result =
           Some([format |-> calls[p].passed.format, image |-> null])
      /\ calls[p].log = <<"cache.get", "fetch">>
      /\ calls[p].transformer = <<>>

C3_Witness ==
  \E p \in Calls :
    calls[p].fetched /\ ~Truthy(calls[p].originalImage) /\ Returned(p)

\* the options a call was passed, with an absent format resolved
Resolved(p) ==
  [calls[p].passed EXCEPT
     !.format = IF Truthy(@) THEN @ ELSE Some(NativeFormat(calls[p].id))]

\* C4: two calls with the same id and adapter use the same cache key if
\* their options are equal after format resolution, and different keys if
\* their options differ in a field.
C4_KeyOfResolvedOptions ==
  \A p, q \in Calls :
    (Started(p) /\ Started(q) /\ calls[p].id = calls[q].id
       /\ calls[p].adapterName = calls[q].adapterName) =>
      ((Resolved(p) = Resolved(q)) <=> (calls[p].cacheKey = calls[q].cacheKey))

\* C5: once built, the keys of two triples (id, adapter name, fingerprint),
\* adapter names and fingerprints without ':', are equal exactly if the
\* triples are.
C5_KeyInjective ==
  keys.built => ((keys.ka = keys.kb) <=> (keys.a = keys.b))

C5_Witness ==
  /\ keys.built
  /\ keys.a # keys.b
  /\ keys.a[1] = <<"a", ":">>
  /\ keys.b[1] = <<"a">>
  /\ keys.ka # keys.kb

\* C6: once the overlay fetch of a call has yielded no bytes, the call goes
\* on to encoding with nothing composited and no overlay buffer prepared.
C6_NullOverlaySkipped ==
  \A p \in Calls :
    (calls[p].overlayFetched /\ ~Truthy(calls[p].overlayImage)) =>
      /\ calls[p].pc \in {"toBuffer", "cache.set", "done", "failed"}
      /\ calls[p].failedAt \in {"", "toBuffer", "cache.set"}
      /\ Count(calls[p].log, "overlay.sharp") = 0
      /\ Count(calls[p].log, "composite") = 0

\* the awaits before cache.set
StagesBeforeSet ==
  {"cache.get", "fetch", "metadata", "smartcrop", "overlay.fetch",
   "overlay.toBuffer", "toBuffer"}

\* C7: a call that failed at a stage before cache.set has not invoked
\* cache.set, and a call invokes cache.set only with the encoded image of a
\* pipeline that ends in toFormat.
C7_NoSetBeforeEncoded ==
  \A p \in Calls :
    /\ (calls[p].pc = "failed" /\ calls[p].failedAt \in StagesBeforeSet) =>
         Count(calls[p].log, "cache.set") = 0
    /\ Count(calls[p].log, "cache.set") > 0 =>
         /\ Count(calls[p].log, "toFormat") = 1
         /\ Truthy(calls[p].result)
         /\ calls[p].result[1].image =
              Some(ToBuffer(calls[p].originalImage[1], calls[p].transformer))
         /\ calls[p].transformer[Len(calls[p].transformer)].op = "toFormat"

C7_Witness ==
  \E p \in Calls : calls[p].pc = "failed" /\ calls[p].failedAt = "toBuffer"

\* the integer nearest to n / d, halves rounded up
RoundHalfUp(n, d) == (2 * n + d) \div (2 * d)

\* n / d lies halfway between two integers
Halfway(n, d) == (2 * n) % d = 0 /\ ((2 * n) \div d) % 2 = 1

\* the height getCropDimensions works with
CropHeight == IF Falsy(crop.height) THEN crop.width ELSE crop.height[1]

Reference(maxSize, width, height) ==
  IF width <= maxSize /\ height <= maxSize THEN <<width, height>>
  ELSE IF width > height
  THEN <<maxSize, RoundHalfUp(maxSize * height, width)>>
  ELSE <<RoundHalfUp(maxSize * width, height), maxSize>>

\* C8 as stated: for positive maxSize, width and height the result is the
\* reference, with round(maxSize * height / width) or
\* round(maxSize * width / height) for the scaled edge.
C8_Original ==
  (crop.out # <<>> /\ Truthy(crop.height)) =>
    crop.out = Reference(crop.maxSize, crop.width, crop.height[1])

\* C8 amended: the result is the reference, except that where the exact
\* quotient lies halfway between two integers the scaled edge is the
\* reference's or one less.
C8_ReferenceUpToHalfway ==
  (crop.out # <<>> /\ Truthy(crop.height)) =>
    LET ref == Reference(crop.maxSize, crop.width, crop.height[1])
        half == IF crop.width > crop.height[1]
                THEN Halfway(crop.maxSize * crop.height[1], crop.width)
                ELSE Halfway(crop.maxSize * crop.width, crop.height[1])
        big == crop.width > crop.maxSize \/ crop.height[1] > crop.maxSize
    IN  \/ crop.out = ref
        \/ /\ big /\ half
           /\ crop.out = IF crop.width > crop.height[1]
                         THEN <<ref[1], ref[2] - 1>>
                         ELSE <<ref[1] - 1, ref[2]>>

C8_Witness ==
  /\ crop.maxSize = 2000 /\ crop.width = 1000 /\ crop.height = Some(4000)
  /\ crop.out = <<500, 2000>>

\* C9: with the height omitted the result is that of the call with the
\* height equal to the width, a square.
C9_OmittedHeightIsSquare ==
  (crop.out # <<>> /\ crop.height = undefined) =>
    /\ crop.out = getCropDimensions(crop.maxSize, crop.width, Some(crop.width))
    /\ crop.out[1] = crop.out[2]

C9_Witness ==
  /\ crop.out # <<>> /\ crop.height = undefined
  /\ crop.width > crop.maxSize
  /\ crop.out = <<crop.maxSize, crop.maxSize>>

\* C10: neither returned dimension exceeds maxSize, and when the width or the
\* height does, the longer returned edge is maxSize.
C10_WithinMaxSize ==
  crop.out # <<>> =>
    /\ crop.out[1] <= crop.maxSize
    /\ crop.out[2] <= crop.maxSize
    /\ (crop.width > crop.maxSize \/ CropHeight > crop.maxSize) =>
         Max(crop.out[1], crop.out[2]) = crop.maxSize

C10_Witness ==
  /\ crop.out # <<>>
  /\ crop.width > crop.maxSize /\ CropHeight > crop.maxSize
  /\ crop.width > CropHeight
  /\ crop.out[1] = crop.maxSize /\ crop.out[2] < crop.maxSize

\* C11: a call that was passed no format and has reached cache.set holds the
\* key of the options as passed, format absent; its result carries the
\* source's native format, which is also the format of its toFormat; and
\* once it has returned, the cache holds that result under that key.
C11_KeyUnresolvedResultResolved ==
  \A p \in Calls :
    (Count(calls[p].log, "cache.set") > 0 /\ ~Truthy(calls[p].passed.format)) =>
      /\ calls[p].cacheKey =
           buildCacheKey(calls[p].id, calls[p].passed, calls[p].adapterName)
      /\ calls[p].result[1].format = Some(NativeFormat(calls[p].id))
      /\ calls[p].transformer[Len(calls[p].transformer)].format =
           Some(NativeFormat(calls[p].id))
      /\ Returned(p) =>
           /\ calls[p].cacheKey \in DOMAIN cache
           /\ cache[calls[p].cacheKey] = calls[p].result[1]

C11_Witness ==
  \E p \in Calls :
    /\ Returned(p) /\ calls[p].outcome = "computed"
    /\ ~Truthy(calls[p].passed.format)
    /\ calls[p].result[1].format = Some("jpeg")

\* the call has the source's bytes and a format: it is at line 88 or beyond
GeometryReached(p) ==
  /\ calls[p].fetched /\ Truthy(calls[p].originalImage)
  /\ calls[p].pc # "metadata"
  /\ ~(calls[p].pc = "failed" /\ calls[p].failedAt = "metadata")

\* the call awaits smartcrop.crop, or that await was rejected
InSmartcrop(p) ==
  \/ calls[p].pc = "smartcrop"
  \/ calls[p].pc = "failed" /\ calls[p].failedAt = "smartcrop"

\* the resize operations of the call's pipeline
Resizes(p) ==
  {i \in DOMAIN calls[p].transformer : calls[p].transformer[i].op = "resize"}

\* the call's pipeline has one resize, to width x height with these options
OneResize(p, width, height, fields) ==
  /\ Cardinality(Resizes(p)) = 1
  /\ \A i \in Resizes(p) :
       /\ calls[p].transformer[i].width = width
       /\ calls[p].transformer[i].height = height
       /\ DOMAIN calls[p].transformer[i].options = fields

\* C12: a call that has the source's bytes and a format has run exactly one
\* geometric branch: with smartcrop set, smartcrop.crop and then extract and
\* a plain resize, whatever crop is; with crop alone, the resize anchored at
\* the gravity and neither smartcrop.crop nor extract; with neither, the
\* fit-inside resize without enlargement and neither smartcrop.crop nor
\* extract.
C12_OneGeometricBranch ==
  \A p \in Calls :
    GeometryReached(p) =>
      IF calls[p].options.smartcrop
      THEN /\ Count(calls[p].log, "smartcrop") = 1
           /\ IF InSmartcrop(p)
              THEN Count(calls[p].log, "extract") = 0 /\ Resizes(p) = {}
              ELSE /\ Count(calls[p].log, "extract") = 1
                   /\ OneResize(p, Some(calls[p].cropDims[1]),
                                Some(calls[p].cropDims[1]), {})
      ELSE /\ Count(calls[p].log, "smartcrop") = 0
           /\ Count(calls[p].log, "extract") = 0
           /\ IF calls[p].options.crop
              THEN /\ OneResize(p, Some(calls[p].cropDims[1]),
                                Some(calls[p].cropDims[2]), {"position"})
              ELSE /\ OneResize(p, calls[p].options.width,
                                calls[p].options.height,
                                {"fit", "withoutEnlargement"})
                   /\ \A i \in Resizes(p) :
                        /\ calls[p].transformer[i].options.fit = "inside"
                        /\ calls[p].transformer[i].options.withoutEnlargement

C12_Witness ==
  \E p \in Calls :
    /\ Returned(p) /\ calls[p].outcome = "computed"
    /\ calls[p].options.smartcrop /\ calls[p].options.crop
    /\ Count(calls[p].log, "extract") = 1

\* what a call invokes, in the order of the stages: lookup, source fetch,
\* orientation, blur, format resolution, geometry, overlay, encoding, store
StageOrder ==
  <<"cache.get", "fetch", "sharp", "rotate", "blur", "metadata", "smartcrop",
    "extract", "resize", "overlay.fetch", "overlay.sharp", "composite",
    "toFormat", "cache.set">>

Rank(what) == CHOOSE i \in DOMAIN StageOrder : StageOrder[i] = what

\* what a call suspended at pc has invoked last
Awaited(pc) ==
  IF pc = "toBuffer" THEN "toFormat"
  ELSE IF pc = "overlay.toBuffer" THEN "overlay.sharp"
  ELSE pc

\* C13: what a call has invoked is in the order of the stages, each at most
\* once: the fetch, rotate, blur (only if requested), format resolution (only
\* for an absent format), the geometric operations, the overlay fetch and
\* composite (only if requested), toFormat, cache.set; and a call suspended
\* at an await has invoked nothing after what it awaits.
C13_StagesInOrder ==
  \A p \in Calls :
    /\ \A i \in 2..Len(calls[p].log) :
         Rank(calls[p].log[i - 1]) < Rank(calls[p].log[i])
    /\ Count(calls[p].log, "blur") > 0 => calls[p].options.blur
    /\ Count(calls[p].log, "metadata") > 0 => ~Truthy(calls[p].passed.format)
    /\ Count(calls[p].log, "overlay.fetch") > 0 => calls[p].options.overlay
    /\ Count(calls[p].log, "composite") > 0 =>
         Count(calls[p].log, "overlay.fetch") > 0
    /\ calls[p].pc \notin {"idle", "done", "failed"} =>
         calls[p].log[Len(calls[p].log)] = Awaited(calls[p].pc)

C13_Witness ==
  \E p \in Calls :
    /\ Returned(p)
    /\ calls[p].log = <<"cache.get", "fetch", "sharp", "rotate", "blur",
                        "metadata", "smartcrop", "extract", "resize",
                        "overlay.fetch", "overlay.sharp", "composite",
                        "toFormat", "cache.set">>

\* the call holds a result with an image: one it computed or one it was served
HasImage(p) == Truthy(calls[p].result) /\ Truthy(calls[p].result[1].image)

\* C14: whatever the interleaving, two calls with the same id, adapter and
\* options that hold a result with an image hold the same result, and an
\* entry of the cache under the key of such a call is that result: every
\* cache.set under a key writes the same value.
C14_WritesAgree ==
  /\ \A p, q \in Calls :
       (Started(p) /\ Started(q) /\ SameArguments(p, q)
          /\ HasImage(p) /\ HasImage(q)) =>
         calls[p].result = calls[q].result
  /\ \A p \in Calls :
       (HasImage(p) /\ calls[p].cacheKey \in DOMAIN cache) =>
         cache[calls[p].cacheKey] = calls[p].result[1]

\* two calls with the same arguments both missed and both computed
C14_Witness ==
  \E p, q \in Calls :
    /\ p # q /\ SameArguments(p, q)
    /\ Returned(p) /\ calls[p].outcome = "computed"
    /\ Returned(q) /\ calls[q].outcome = "computed"

\* what call p has invoked, and how it ended if it has
OneShot(p) ==
  /\ Count(calls[p].log, "cache.get") = 1
  /\ Count(calls[p].log, "fetch") <= 1
  /\ Count(calls[p].log, "overlay.fetch") <= 1
  /\ Count(calls[p].log, "overlay.fetch") = 1 =>
       /\ calls[p].passed.overlay
       /\ calls[p].fetched /\ Truthy(calls[p].originalImage)
  /\ Count(calls[p].log, "cache.set") <= 1
  /\ calls[p].pc = "done" <=> calls[p].outcome \in {"cached", "null", "computed"}
  /\ calls[p].pc = "failed" <=> calls[p].failedAt # ""
  /\ calls[p].outcome = "none" \/ calls[p].failedAt = ""

\* C15: where every collaborator call returns, every call ends, returned
\* (with the cached, the null-image or the computed result) or failed, and
\* stays as it ended; it invokes cache.get once, the source fetch, the overlay
\* fetch and cache.set at most once, the overlay fetch only with overlay set
\* and the source's bytes at hand.
C15_TerminatesOneShot ==
  /\ [](\A p \in Calls : Started(p) => OneShot(p))
  /\ [][\A p \in Calls : p \in Finished => calls'[p] = calls[p]]_vars
  /\ \A p \in Calls : Started(p) ~> (p \in Finished)

C15_Witness ==
  \E p, q \in Calls :
    /\ Returned(p) /\ calls[p].outcome = "computed"
    /\ Count(calls[p].log, "overlay.fetch") = 1
    /\ calls[q].pc = "failed" /\ calls[q].failedAt = "overlay.toBuffer"

\* C16: no entry of the cache has a null image, and a call holds a result
\* with a null image only as the return value of its own source fetch having
\* yielded no bytes, never as what cache.get gave it.
C16_NoNullImageCached ==
  /\ \A k \in DOMAIN cache : Truthy(cache[k].image)
  /\ \A p \in Calls :
       (Truthy(calls[p].result) /\ ~Truthy(calls[p].result[1].image)) =>
         /\ calls[p].fetched /\ ~Truthy(calls[p].originalImage)
         /\ calls[p].outcome = "null"
         /\ ~Truthy(calls[p].cachedImage)

C16_Witness ==
  /\ DOMAIN cache # {}
  /\ \E p \in Calls :
       /\ Returned(p) /\ calls[p].result[1].image = null
       /\ calls[p].cacheKey \in DOMAIN cache

\* the step stores the result of call p under its key and no more
StoresOwnResult(p) ==
  /\ calls[p].pc = "cache.set"
  /\ calls'[p].pc \in {"done", "failed"}
  /\ calls[p].cacheKey =
       buildCacheKey(calls[p].id, calls[p].passed, calls[p].adapterName)
  /\ DOMAIN cache' = DOMAIN cache \cup {calls[p].cacheKey}
  /\ \A k \in DOMAIN cache \ {calls[p].cacheKey} : cache'[k] = cache[k]
  /\ cache'[calls[p].cacheKey] = calls[p].result[1]
  /\ calls'[p].pc = "done" => calls'[p].result = Some(cache'[calls[p].cacheKey])

\* C17: a step that changes the cache is the cache.set of one call: it sets
\* the entry under the key built from the id, the options as passed and the
\* adapter name of that call to the result the call returns, and leaves
\* every other entry as it was.
C17_OneKeyOwnResult ==
  [][cache' # cache => \E p \in Calls : StoresOwnResult(p)]_vars

C17_Witness ==
  /\ Cardinality(DOMAIN cache) = 2
  /\ \A p \in Calls :
       /\ Returned(p) /\ calls[p].outcome = "computed"
       /\ cache[calls[p].cacheKey] = calls[p].result[1]

\* C18: for positive maxSize, width and height both returned dimensions are
\* at least 1.
C18_AtLeastOne ==
  crop.out # <<>> => crop.out[1] >= 1 /\ crop.out[2] >= 1

====
